---- MODULE Spec2Model ----
(***************************************************************************)
(* Model of src/app.py: an ephemeral file-sharing service.                 *)
(*                                                                         *)
(*   file_store  the in-memory registry, code -> {files, timestamp}        *)
(*   disk        the upload directory, file name -> {mtime, size, writer}  *)
(*   index()     the upload handler, one step per loop iteration           *)
(*   download_page, get_file, get_all_files, api_check   the read handlers *)
(*   cleanup_old_files()   the background cleanup thread, one step per     *)
(*                         directory entry, then the registry sweep        *)
(*                                                                         *)
(* Names are sequences of one-character strings, so that the pattern test  *)
(* of the cleanup thread and secure_filename are computed, not assumed.    *)
(* Time is counted in ticks, TicksPerSecond ticks to the second.           *)
(***************************************************************************)
EXTENDS Integers, Sequences, FiniteSets, TLC

\* ------------------------------------------------------------------ bounds

TicksPerSecond == 2
MaxLate == 1
MaxUploads == 2
MaxFiles == 2
MaxEvents == 3

\* ------------------------------------------------------- program constants

MAX_TOTAL_SIZE_BYTES == 100 * 1024 * 1024
MAX_SINGLE_FILE_SIZE_BYTES == 80 * 1024 * 1024
EXPIRATION_SECONDS == 15 * 60
CHECK_INTERVAL_SECONDS == 60
TTL_MINUTES == 15

\* The two constants in ticks.
ExpirationTicks == EXPIRATION_SECONDS * TicksPerSecond
CheckIntervalTicks == CHECK_INTERVAL_SECONDS * TicksPerSecond

\* The instants at which the clock is looked at: the start, half of the
\* expiration time and one tick (an age that is not a whole number of
\* seconds), the expiration time itself, and up to MaxLate ticks past it.
Instants ==
  {0, (EXPIRATION_SECONDS \div 2) * TicksPerSecond + 1}
    \cup { ExpirationTicks + k : k \in 0..MaxLate }

\* ------------------------------------------------------------------- names

Digits == {"0", "1", "2", "3", "4", "5", "6", "7", "8", "9"}
Letters == {"a", "b", "c", "d", "e", "f", "g", "h", "i", "j", "k", "l", "m",
            "n", "o", "p", "q", "r", "s", "t", "u", "v", "w", "x", "y", "z"}

\* str.isdigit(): non-empty and every character a digit.
IsDigit(s) == Len(s) > 0 /\ \A k \in 1..Len(s) : s[k] \in Digits

\* s[:n]
Prefix(s, n) == SubSeq(s, 1, IF Len(s) < n THEN Len(s) ELSE n)

\* generate_code(): random.choices(string.digits, k=6). Any six digits can
\* come out; the model draws from two of them, with no look at file_store.
Codes == { <<"4", "0", "7", "1", "9", "3">>, <<"0", "0", "0", "0", "0", "0">> }
generate_code == Codes

\* werkzeug's secure_filename on ASCII input: path separators become spaces,
\* runs of whitespace are squeezed to one "_" (leading and trailing ones
\* dropped), characters outside [A-Za-z0-9_.-] are removed, and "." and "_"
\* are stripped from both ends.
RECURSIVE ReplaceSep(_)
ReplaceSep(s) ==
  IF s = <<>> THEN <<>>
  ELSE <<IF Head(s) = "/" THEN " " ELSE Head(s)>> \o ReplaceSep(Tail(s))

RECURSIVE LStrip(_, _)
LStrip(s, chars) ==
  IF s # <<>> /\ Head(s) \in chars THEN LStrip(Tail(s), chars) ELSE s

RECURSIVE RStrip(_, _)
RStrip(s, chars) ==
  IF s # <<>> /\ s[Len(s)] \in chars THEN RStrip(SubSeq(s, 1, Len(s) - 1), chars) ELSE s

Strip(s, chars) == RStrip(LStrip(s, chars), chars)

\* "_".join(s.split()) on a string already stripped of outer whitespace
RECURSIVE JoinWords(_)
JoinWords(s) ==
  IF s = <<>> THEN <<>>
  ELSE IF Head(s) = " " THEN <<"_">> \o JoinWords(LStrip(s, {" "}))
  ELSE <<Head(s)>> \o JoinWords(Tail(s))

AsciiAllowed == Letters \cup Digits \cup {"_", ".", "-"}

secure_filename(name) ==
  Strip(SelectSeq(JoinWords(Strip(ReplaceSep(name), {" "})),
                  LAMBDA ch : ch \in AsciiAllowed),
        {".", "_"})

\* StoredName, had the separator been left out.
StoredNameNoSeparator(code, original_name) == code \o secure_filename(original_name)

\* f"{code}_{safe_name}"
StoredName(code, original_name) == code \o <<"_">> \o secure_filename(original_name)

\* ------------------------------------------------------------------ inputs

KB == 2 ^ 10
MB == 1024 * 1024

Name_a == <<"a", ".", "t", "x", "t">>
Name_up_a == <<".", ".", "/", "a", ".", "t", "x", "t">>
Name_c == <<"c", ".", "b", "i", "n">>
Name_dots == <<".", ".">>

\* The files a request can carry: [filename, size]. The empty filename is the
\* empty part a browser sends for an unfilled file field. Two of the names
\* are the same after secure_filename, and of ".." secure_filename leaves
\* nothing; 60 MB + 90 MB is over the total limit, 90 MB is over the
\* single-file limit.
File_a == [filename |-> Name_a, size |-> KB]
File_up_a == [filename |-> Name_up_a, size |-> 60 * MB]
File_c == [filename |-> Name_c, size |-> 90 * MB]
File_empty == [filename |-> <<>>, size |-> 0]
File_dots == [filename |-> Name_dots, size |-> KB]

\* The requests tried: no file, only an empty part, an empty part before a
\* file (one whose sanitized name is empty), two files with the same
\* sanitized name, an accepted file followed by one over the single-file
\* limit, and two files over the total.
Batches ==
  { <<>>, <<File_empty>>, <<File_empty, File_dots>>,
    <<File_a, File_up_a>>, <<File_a, File_c>>, <<File_up_a, File_c>> }

\* Files that are in the upload directory but were not written by index().
ForeignNames ==
  { <<"n", "o", "t", "e", "s", ".", "t", "x", "t">>,
    <<"1", "2", "3", "4", "5", "6">> }

\* The upload requests, each with its own request context.
Requests == 1..MaxUploads

NoCode == <<>>
NoResp == [op |-> "none"]

\* The locals of index() before the request arrives, and what is left of
\* them once it has been answered: the error, or the session it registered.
NewRequest ==
  [pc |-> "new", files |-> <<>>, i |-> 0, code |-> NoCode,
   uploaded_files |-> <<>>, total_size |-> 0, error |-> "", timestamp |-> 0]

Failed(error) == [NewRequest EXCEPT !.pc = "done", !.error = error]

\* ------------------------------------------------------------------- state

VARIABLES
  now,          \* the clock, in ticks (time.time() and datetime.now())
  file_store,   \* code -> [files, timestamp]
  disk,         \* the upload directory: name -> [mtime, writer]
  h,            \* per upload request: the locals of index()
  rp,           \* the locals and position of cleanup_old_files()
  resp,         \* the response of the read handler that ran in the last step
  events,       \* number of environment events so far: requests, foreign
                \* files, advances of the clock, removal of the directory
  upload_path_exists   \* the upload directory is there

vars == <<now, file_store, disk, h, rp, resp, events, upload_path_exists>>

\* ----------------------------------------------------------------- helpers

\* A function without the keys in S / with key k set to v.
Without(f, S) == [k \in DOMAIN f \ S |-> f[k]]
With(f, k, v) == [x \in DOMAIN f \cup {k} |-> IF x = k THEN v ELSE f[x]]

\* not f.filename.strip()
Blank(name) == Strip(name, {" "}) = <<>>

\* line 162: not files or all(not f.filename.strip() for f in files)
NoFilesSelected(files) == files = <<>> \/ \A k \in 1..Len(files) : Blank(files[k].filename)

\* No read handler is between its request and its response. Each read handler
\* is taken as one step: it reads file_store and the directory and writes
\* nothing, and its answer is kept in resp until the response is sent.
Quiet == resp = NoResp

\* The thread of cleanup_old_files() between two sweeps.
Sleeping(wake) == [pc |-> "sleep", now |-> 0, todo |-> {}, expired_codes |-> {}, wake |-> wake]

Init ==
  /\ now = 0
  /\ file_store = <<>>
  /\ disk = <<>>
  /\ h = [r \in Requests |-> NewRequest]
  /\ rp = Sleeping(0)
  /\ resp = NoResp
  /\ events = 0
  /\ upload_path_exists = TRUE

\* ------------------------------------------------------------- environment

\* Time passes.
Tick(t) ==
  /\ Quiet
  /\ events < MaxEvents
  /\ t > now
  /\ now' = t
  /\ events' = events + 1
  /\ resp' = NoResp
  /\ UNCHANGED <<file_store, disk, h, rp, upload_path_exists>>

\* A file that index() did not write appears in the upload directory.
DropForeignFile(name) ==
  /\ Quiet
  /\ events < MaxEvents
  /\ upload_path_exists = TRUE
  /\ name \notin DOMAIN disk
  /\ disk' = With(disk, name, [mtime |-> now, writer |-> 0])
  /\ events' = events + 1
  /\ resp' = NoResp
  /\ UNCHANGED <<now, file_store, h, rp, upload_path_exists>>

\* The upload directory, made at line 28 when the module is loaded, is removed
\* with what is in it. Nothing in the program makes it again.
RemoveUploadFolder ==
  /\ Quiet
  /\ events < MaxEvents
  /\ upload_path_exists = TRUE
  /\ upload_path_exists' = FALSE
  /\ disk' = <<>>
  /\ events' = events + 1
  /\ resp' = NoResp
  /\ UNCHANGED <<now, file_store, h, rp>>

\* ------------------------------------------------------------ index(), POST

\* RollbackBatch, had the loop over uploaded_files been left out.
RollbackBatchCurrentOnly(d, uploaded_files, path) == Without(d, {path})

\* lines 184-186: the files accepted so far and the current one are unlinked
\* (missing_ok=True).
RollbackBatch(d, uploaded_files, path) ==
  Without(d, { uploaded_files[k].filename : k \in 1..Len(uploaded_files) } \cup {path})

\* line 190: only the current file is unlinked.
RollbackSingle(d, uploaded_files, path) == Without(d, {path})

\* LoopDone, had the loop stopped after its first iteration.
LoopDoneAfterFirst(r) == h[r].i > 1

\* line 169: the loop is over.
LoopDone(r) == h[r].i > Len(h[r].files)

\* Requests arrive in the order of their numbers.
Arrives(r) ==
  /\ events < MaxEvents
  /\ h[r].pc = "new"
  /\ \A q \in Requests : q < r => h[q].pc # "new"

\* lines 160-163: a request without a named file is answered at once.
IndexNoFiles(r, files) ==
  /\ Quiet
  /\ Arrives(r)
  /\ NoFilesSelected(files)
  /\ h' = [h EXCEPT ![r] = Failed("No files selected")]
  /\ events' = events + 1
  /\ resp' = NoResp
  /\ UNCHANGED <<now, file_store, disk, rp, upload_path_exists>>

\* lines 160-167: the request draws its code and enters the loop.
IndexBegin(r, files, code) ==
  /\ Quiet
  /\ Arrives(r)
  /\ ~NoFilesSelected(files)
  /\ h' = [h EXCEPT ![r] = [NewRequest EXCEPT !.pc = "loop", !.files = files,
                                              !.i = 1, !.code = code]]
  /\ events' = events + 1
  /\ resp' = NoResp
  /\ UNCHANGED <<now, file_store, disk, rp, upload_path_exists>>

\* lines 169-198: one iteration of the loop over the request's files. The
\* record's display fields (size, type) are left out. file.save writes the
\* file only if the directory is there (else see IndexSaveFails).
IndexFile(r) ==
  /\ Quiet
  /\ h[r].pc = "loop"
  /\ ~LoopDone(r)
  /\ h[r].files[h[r].i].filename # <<>> => upload_path_exists
  /\ LET file == h[r].files[h[r].i]
         original_name == file.filename
         stored_name == StoredName(h[r].code, original_name)
         saved == With(disk, stored_name, [mtime |-> now, writer |-> r])
         file_size == file.size
         total_size == h[r].total_size + file_size
     IN
       IF original_name = <<>>
       THEN \* lines 170-171
            /\ h' = [h EXCEPT ![r].i = @ + 1]
            /\ UNCHANGED disk
       ELSE IF total_size > MAX_TOTAL_SIZE_BYTES
       THEN \* lines 183-187
            /\ disk' = RollbackBatch(saved, h[r].uploaded_files, stored_name)
            /\ h' = [h EXCEPT ![r] = Failed("Total size exceeds 100 MB limit")]
       ELSE IF file_size > MAX_SINGLE_FILE_SIZE_BYTES
       THEN \* lines 189-191
            /\ disk' = RollbackSingle(saved, h[r].uploaded_files, stored_name)
            /\ h' = [h EXCEPT ![r] = Failed("Single file too large (max ~80 MB)")]
       ELSE \* lines 193-198
            /\ disk' = saved
            /\ h' = [h EXCEPT ![r].i = @ + 1,
                              ![r].total_size = total_size,
                              ![r].uploaded_files =
                                 Append(@, [filename |-> stored_name,
                                            original_name |-> original_name])]
  /\ resp' = NoResp
  /\ UNCHANGED <<now, file_store, rp, events, upload_path_exists>>

\* line 178: file.save raises (disk full, permissions); the request ends with
\* a server error and nothing is rolled back.
IndexSaveFails(r) ==
  /\ Quiet
  /\ h[r].pc = "loop"
  /\ ~LoopDone(r)
  /\ h[r].files[h[r].i].filename # <<>>
  /\ h' = [h EXCEPT ![r] = Failed("Internal Server Error")]
  /\ resp' = NoResp
  /\ UNCHANGED <<now, file_store, disk, rp, events, upload_path_exists>>

\* lines 200-218: after the loop, the session is put in file_store.
IndexFinish(r) ==
  /\ Quiet
  /\ h[r].pc = "loop"
  /\ LoopDone(r)
  /\ IF h[r].uploaded_files = <<>>
     THEN /\ h' = [h EXCEPT ![r] = Failed("No valid files uploaded")]
          /\ UNCHANGED file_store
     ELSE /\ file_store' = With(file_store, h[r].code,
                                [files |-> h[r].uploaded_files, timestamp |-> now])
          /\ h' = [h EXCEPT ![r] = [NewRequest EXCEPT !.pc = "done",
                                       !.code = h[r].code,
                                       !.uploaded_files = h[r].uploaded_files,
                                       !.timestamp = now]]
  /\ resp' = NoResp
  /\ UNCHANGED <<now, disk, rp, events, upload_path_exists>>

\* ----------------------------------------------------------- read handlers

\* URL <int:index> values tried by get_file.
Indexes == 0..(MaxFiles - 1)

\* flask.send_from_directory: 404 when the file is not in the directory,
\* else the bytes found under that name, offered as download_name. `writer`
\* tells whose bytes they are.
send_from_directory(filename, download_name) ==
  IF filename \in DOMAIN disk
  THEN [status |-> 200, kind |-> "file", filename |-> filename,
        download_name |-> download_name, writer |-> disk[filename].writer]
  ELSE [status |-> 404, kind |-> "missing"]

\* lines 225-243
download_page(code) ==
  IF code = NoCode \/ code \notin DOMAIN file_store
  THEN [op |-> "download_page", code |-> code, error |-> "Invalid or expired code"]
  ELSE [op |-> "download_page", code |-> code, error |-> "",
        files |-> file_store[code].files]

\* lines 247-261
get_file(code, index) ==
  IF code \notin DOMAIN file_store
  THEN [status |-> 404, kind |-> "Not found"]
  ELSE LET files == file_store[code].files IN
       IF ~(0 <= index /\ index < Len(files))
       THEN [status |-> 404, kind |-> "Invalid file index"]
       ELSE LET info == files[index + 1] IN
            send_from_directory(info.filename, info.original_name)

\* lines 280-285: one archive member per record whose blob is a file.
RECURSIVE ZipEntries(_)
ZipEntries(files) ==
  IF files = <<>> THEN <<>>
  ELSE LET info == Head(files) IN
       (IF info.filename \in DOMAIN disk
        THEN << [name |-> info.original_name, writer |-> disk[info.filename].writer] >>
        ELSE <<>>) \o ZipEntries(Tail(files))

\* lines 265-294
get_all_files(code) ==
  IF code \notin DOMAIN file_store
  THEN [status |-> 404, kind |-> "Not found"]
  ELSE LET files == file_store[code].files IN
       IF Len(files) = 1
       THEN send_from_directory(files[1].filename, files[1].original_name)
       ELSE [status |-> 200, kind |-> "zip",
             download_name |-> <<"f", "i", "l", "e", "s", "_">> \o code
                                 \o <<".", "z", "i", "p">>,
             entries |-> ZipEntries(files)]

Invalid == [valid |-> FALSE, expired |-> TRUE, remaining_seconds |-> 0]

\* line 306: timedelta(minutes=15) - (datetime.now() - ts), in ticks
Remaining(ts) == TTL_MINUTES * 60 * TicksPerSecond - (now - ts)

\* line 307
StillValid(remaining) == ~(remaining <= 0)

\* IntSeconds, had the seconds been rounded up instead of truncated.
IntSecondsRoundedUp(ticks) == (ticks + TicksPerSecond - 1) \div TicksPerSecond

\* int(x) of a non-negative number of seconds given in ticks
IntSeconds(ticks) == ticks \div TicksPerSecond

\* lines 298-316
api_check(code) ==
  IF code \notin DOMAIN file_store
  THEN Invalid
  ELSE LET remaining == Remaining(file_store[code].timestamp) IN
       IF ~StillValid(remaining)
       THEN Invalid
       ELSE [valid |-> TRUE, expired |-> FALSE,
             remaining_seconds |-> IntSeconds(remaining),
             minutes |-> remaining \div (60 * TicksPerSecond),
             seconds |-> IntSeconds(remaining % (60 * TicksPerSecond))]

\* Answer, had the handler dropped the expired sessions it came across.
AnswerAndEvict(r) ==
  /\ Quiet
  /\ resp' = r
  /\ file_store' = Without(file_store, { code \in DOMAIN file_store :
                                           ~StillValid(Remaining(file_store[code].timestamp)) })
  /\ UNCHANGED <<now, disk, h, rp, events, upload_path_exists>>

\* The read handlers write neither file_store nor the directory (the archive
\* of get_all_files is built in memory, line 281).
Answer(r) ==
  /\ Quiet
  /\ resp' = r
  /\ UNCHANGED <<now, file_store, disk, h, rp, events, upload_path_exists>>

DownloadPage(code) == Answer(download_page(code))

GetFile(code, index) ==
  Answer([op |-> "get_file", code |-> code, index |-> index, r |-> get_file(code, index)])

GetAllFiles(code) ==
  Answer([op |-> "get_all_files", code |-> code, r |-> get_all_files(code)])

ApiCheck(code) ==
  Answer([op |-> "api_check", code |-> code, r |-> api_check(code)])

\* ------------------------------------------------------ cleanup_old_files()

\* line 122: path.name[:6].isdigit() and path.name[6] == '_'. The index
\* raises IndexError when the six (or fewer) characters are all digits and
\* there is no seventh.
PatternRaises(name) == IsDigit(Prefix(name, 6)) /\ Len(name) < 7
PatternMatches(name) == IsDigit(Prefix(name, 6)) /\ name[7] = "_"

\* line 113
DiskExpired(age) == age > ExpirationTicks

\* line 139
StoreExpired(age) == age > ExpirationTicks

\* Aborted, had the exception ended the thread.
AbortedDead == [pc |-> "dead", now |-> 0, todo |-> {}, expired_codes |-> {}, wake |-> 0]

\* lines 146-149: an exception out of the sweep is caught and logged, and
\* the thread sleeps: time.sleep(CHECK_INTERVAL_SECONDS).
Aborted == Sleeping(now + CheckIntervalTicks)

\* lines 94-106: a sweep starts: the clock is read, the directory is listed.
\* lines 99-101: without the directory the thread sleeps and tries again.
CleanupBegin ==
  /\ Quiet
  /\ rp.pc = "sleep"
  /\ now >= rp.wake
  /\ rp' = IF upload_path_exists
           THEN [rp EXCEPT !.pc = "scan", !.now = now, !.todo = DOMAIN disk]
           ELSE Sleeping(now + CheckIntervalTicks)
  /\ resp' = NoResp
  /\ UNCHANGED <<now, file_store, disk, h, events, upload_path_exists>>

\* lines 106-128: one directory entry, in whatever order iterdir yields them.
\* A listed file that is gone by now was unlinked by a request or went with
\* the directory: either is_file (line 107) already finds it gone, or is_file
\* still saw it and path.stat() (line 110, outside the inner try) raises
\* FileNotFoundError. The pattern test (line 122) raises IndexError. Both
\* exceptions leave the loop.
CleanupFile(name) ==
  /\ Quiet
  /\ rp.pc = "scan"
  /\ name \in rp.todo
  /\ resp' = NoResp
  /\ UNCHANGED <<now, file_store, h, events, upload_path_exists>>
  /\ IF name \notin DOMAIN disk
     THEN /\ \/ rp' = [rp EXCEPT !.todo = @ \ {name}]
             \/ rp' = Aborted
          /\ UNCHANGED disk
     ELSE IF DiskExpired(rp.now - disk[name].mtime)
     THEN /\ disk' = Without(disk, {name})
          /\ rp' = [rp EXCEPT !.todo = @ \ {name}]
     ELSE IF PatternRaises(name)
     THEN /\ rp' = Aborted
          /\ UNCHANGED disk
     ELSE IF ~PatternMatches(name)
     THEN /\ disk' = Without(disk, {name})
          /\ rp' = [rp EXCEPT !.todo = @ \ {name}]
     ELSE /\ rp' = [rp EXCEPT !.todo = @ \ {name}]
          /\ UNCHANGED disk

\* lines 136-140: the expired codes are collected.
CleanupCollect ==
  /\ Quiet
  /\ rp.pc = "scan"
  /\ rp.todo = {}
  /\ rp' = [rp EXCEPT !.pc = "purge",
                      !.expired_codes =
                         { code \in DOMAIN file_store :
                             StoreExpired(now - file_store[code].timestamp) }]
  /\ resp' = NoResp
  /\ UNCHANGED <<now, file_store, disk, h, events, upload_path_exists>>

\* lines 142-149: they are deleted from file_store, and the thread sleeps.
CleanupPurge ==
  /\ Quiet
  /\ rp.pc = "purge"
  /\ file_store' = Without(file_store, rp.expired_codes)
  /\ rp' = Sleeping(now + CheckIntervalTicks)
  /\ resp' = NoResp
  /\ UNCHANGED <<now, disk, h, events, upload_path_exists>>

\* ---------------------------------------------------------- specification

\* The response of a read handler is handed to the client.
Respond ==
  /\ resp # NoResp
  /\ resp' = NoResp
  /\ UNCHANGED <<now, file_store, disk, h, rp, events, upload_path_exists>>

Next ==
  \/ \E t \in Instants : Tick(t)
  \/ \E name \in ForeignNames : DropForeignFile(name)
  \/ RemoveUploadFolder
  \/ \E r \in Requests, files \in Batches : IndexNoFiles(r, files)
  \/ \E r \in Requests, files \in Batches, code \in generate_code : IndexBegin(r, files, code)
  \/ \E r \in Requests : IndexFile(r)
  \/ \E r \in Requests : IndexSaveFails(r)
  \/ \E r \in Requests : IndexFinish(r)
  \/ \E code \in Codes : DownloadPage(code)
  \/ \E code \in Codes, index \in Indexes : GetFile(code, index)
  \/ \E code \in Codes : GetAllFiles(code)
  \/ \E code \in Codes : ApiCheck(code)
  \/ Respond
  \/ CleanupBegin
  \/ \E name \in rp.todo : CleanupFile(name)
  \/ CleanupCollect
  \/ CleanupPurge

Spec == Init /\ [][Next]_vars

\* The steps of the cleanup thread.
Reaper ==
  \/ CleanupBegin
  \/ \E name \in rp.todo : CleanupFile(name)
  \/ CleanupCollect
  \/ CleanupPurge

\* The program without its read handlers, which write nothing that the
\* cleanup thread reads.
LiveNext ==
  \/ \E t \in Instants : Tick(t)
  \/ \E name \in ForeignNames : DropForeignFile(name)
  \/ RemoveUploadFolder
  \/ \E r \in Requests, files \in Batches : IndexNoFiles(r, files)
  \/ \E r \in Requests, files \in Batches, code \in generate_code : IndexBegin(r, files, code)
  \/ \E r \in Requests : IndexFile(r)
  \/ \E r \in Requests : IndexSaveFails(r)
  \/ \E r \in Requests : IndexFinish(r)
  \/ CleanupBegin
  \/ \E name \in rp.todo : CleanupFile(name)
  \/ CleanupCollect
  \/ CleanupPurge

\* line 152: cleanup_old_files runs in a thread of its own, which the
\* scheduler does not starve.
LiveSpec == Init /\ [][LiveNext]_vars /\ WF_vars(Reaper)

\* ------------------------------------------------------------------ claims

\* The time to live of a session, in ticks: 15 minutes.
TTL == 15 * 60 * TicksPerSecond

\* Request r has been answered with this error.
FailedWith(r, error) == h[r].pc = "done" /\ h[r].error = error

\* Request r has registered a session.
Registered(r) == h[r].pc = "done" /\ h[r].error = ""

\* The names of the files on disk whose bytes request r wrote.
BlobsOf(r) == { name \in DOMAIN disk : disk[name].writer = r }

\* The entry of file_store under request r's code is the one r registered.
InStore(r, store) ==
  /\ h[r].code \in DOMAIN store
  /\ store[h[r].code] = [files |-> h[r].uploaded_files, timestamp |-> h[r].timestamp]

\* A read handler has just served bytes, or listed files.
ServedBytes ==
  \/ resp.op \in {"get_file", "get_all_files"} /\ resp.r.status = 200
  \/ resp.op = "download_page" /\ resp.error = ""

\* C1: no read handler serves bytes or lists files for a code whose session
\* has reached the age of the TTL, also while the entry is still in
\* file_store.
C1_ExpiredIsAbsent ==
  ServedBytes =>
    /\ resp.code \in DOMAIN file_store
    /\ now - file_store[resp.code].timestamp < TTL

\* C2: when a sweep of the cleanup thread ends, every session that had
\* expired before the sweep started is out of file_store and none of its
\* blobs is in the upload directory.
C2_SweepRemovesExpired ==
  [][ (rp.pc # "sleep" /\ rp'.pc = "sleep") =>
        \A r \in Requests :
          (Registered(r) /\ h[r].timestamp + TTL < rp.now) =>
            /\ ~InStore(r, file_store')
            /\ \A k \in 1..Len(h[r].uploaded_files) :
                 LET name == h[r].uploaded_files[k].filename IN
                 ~(name \in DOMAIN disk' /\ disk'[name].writer = r) ]_vars

\* C3: the code of an upload in flight is the code of no live session in
\* file_store and of no other upload in flight.
C3_CodesUnique ==
  \A r \in Requests :
    h[r].pc = "loop" =>
      /\ h[r].code \in DOMAIN file_store =>
           now - file_store[h[r].code].timestamp >= TTL
      /\ \A q \in Requests \ {r} : h[q].pc = "loop" => h[q].code # h[r].code

\* C4: an upload answered with the total-size error has left none of the
\* files it wrote in the upload directory.
C4_TotalRollback ==
  \A r \in Requests :
    FailedWith(r, "Total size exceeds 100 MB limit") => BlobsOf(r) = {}

C4_Witness ==
  \E r \in Requests :
    /\ FailedWith(r, "Total size exceeds 100 MB limit")
    /\ \E q \in Requests : BlobsOf(q) # {}

\* C5: an upload answered with the single-file error has left none of the
\* files it wrote in the upload directory.
C5_SingleRollback ==
  \A r \in Requests :
    FailedWith(r, "Single file too large (max ~80 MB)") => BlobsOf(r) = {}

\* The files of request r's batch that the loop does not skip.
Named(files) == SelectSeq(files, LAMBDA f : f.filename # <<>>)

RECURSIVE SumSizes(_)
SumSizes(files) == IF files = <<>> THEN 0 ELSE Head(files).size + SumSizes(Tail(files))

\* C6: a step that answers an upload with an error leaves file_store as it
\* was, and a step that writes an entry of file_store is the last step of an
\* upload whose loop has gone through the whole batch, every named file of
\* which is within the single-file limit, and their sum within the total.
C6_RegistryOnlyOnSuccess ==
  [][ /\ \A r \in Requests :
           (h[r].pc # "done" /\ h'[r].pc = "done" /\ h'[r].error # "") =>
             file_store' = file_store
      /\ \A c \in DOMAIN file_store' :
           (c \notin DOMAIN file_store \/ file_store'[c] # file_store[c]) =>
             \E r \in Requests :
               /\ h[r].pc = "loop" /\ h[r].code = c
               /\ h'[r].pc = "done" /\ h'[r].error = ""
               /\ h[r].i > Len(h[r].files)
               /\ Len(h[r].uploaded_files) = Len(Named(h[r].files))
               /\ \A k \in 1..Len(h[r].files) :
                    h[r].files[k].size <= 80 * 1024 * 1024
               /\ SumSizes(Named(h[r].files)) <= 100 * 1024 * 1024
               /\ file_store'[c].files = h[r].uploaded_files ]_vars

\* An upload has failed while a session was in file_store, and another has
\* registered one.
C6_Witness ==
  /\ \E r \in Requests : h[r].pc = "done" /\ h[r].error # "" /\ file_store # <<>>
  /\ \E r \in Requests : Registered(r) /\ Len(h[r].uploaded_files) = 2

\* The records of a session name the files of the request in their order.
InSubmissionOrder(records, files) ==
  /\ Len(records) = Len(Named(files))
  /\ \A k \in 1..Len(records) : records[k].original_name = Named(files)[k].filename

\* C7: the file list of a session is the request's files in their order, and
\* while a session is within its TTL, every step leaves each index of its
\* code resolving to the same file record.
C7_StableIndex ==
  [][ /\ \A r \in Requests :
           (h[r].pc = "loop" /\ h'[r].pc = "done" /\ h'[r].error = "") =>
             InSubmissionOrder(file_store'[h[r].code].files, h[r].files)
      /\ \A c \in DOMAIN file_store :
           now' - file_store[c].timestamp < TTL =>
             /\ c \in DOMAIN file_store'
             /\ \A index \in 0..(Len(file_store[c].files) - 1) :
                  /\ index < Len(file_store'[c].files)
                  /\ file_store'[c].files[index + 1] = file_store[c].files[index + 1] ]_vars

\* C8: for a session with more than one file record, get_all_files answers
\* with a zip archive that has one member per record, named by the record's
\* original name.
C8_ZipHasAllRecords ==
  (resp.op = "get_all_files" /\ resp.code \in DOMAIN file_store
     /\ Len(file_store[resp.code].files) > 1) =>
    LET files == file_store[resp.code].files IN
    /\ resp.r.status = 200
    /\ resp.r.kind = "zip"
    /\ Len(resp.r.entries) = Len(files)
    /\ \A k \in 1..Len(files) : resp.r.entries[k].name = files[k].original_name

\* C9: get_file answers 404 exactly when the code is not in file_store or
\* the index is out of range, and otherwise serves the blob named by the
\* record at that index, under the record's original name, with bytes that a
\* request that registered this very session wrote.
C9_GetFileContract ==
  resp.op = "get_file" =>
    LET known == resp.code \in DOMAIN file_store
        inRange == known /\ 0 <= resp.index
                         /\ resp.index < Len(file_store[resp.code].files)
    IN
    /\ resp.r.status = 404 <=> ~inRange
    /\ resp.r.status = 200 =>
         LET info == file_store[resp.code].files[resp.index + 1] IN
         /\ resp.r.filename = info.filename
         /\ resp.r.download_name = info.original_name
         /\ resp.r.writer \in Requests
         /\ Registered(resp.r.writer)
         /\ InStore(resp.r.writer, file_store)

\* Code c has a session in file_store that is younger than the TTL.
Live(c) == c \in DOMAIN file_store /\ now - file_store[c].timestamp < TTL

\* C10: api_check says valid and not expired exactly for the codes of live
\* sessions, then with the whole seconds left of the TTL, between 0 and 900
\* and equal to 60 * minutes + seconds; for every other code it says not
\* valid, expired, 0 seconds left. From one state to the next, the seconds
\* left of a session that stays the same do not grow.
C10_ApiCheckState ==
  resp.op = "api_check" =>
    IF Live(resp.code)
    THEN LET left == TTL - (now - file_store[resp.code].timestamp) IN
         /\ resp.r.valid /\ ~resp.r.expired
         /\ resp.r.remaining_seconds * TicksPerSecond <= left
         /\ left < (resp.r.remaining_seconds + 1) * TicksPerSecond
         /\ resp.r.remaining_seconds \in 0..900
         /\ resp.r.seconds \in 0..59
         /\ resp.r.remaining_seconds = 60 * resp.r.minutes + resp.r.seconds
    ELSE resp.r = [valid |-> FALSE, expired |-> TRUE, remaining_seconds |-> 0]

C10_ApiCheckStep ==
  \A c \in Codes :
    (c \in DOMAIN file_store /\ c \in DOMAIN file_store'
       /\ file_store'[c] = file_store[c]) =>
      /\ api_check(c)'.remaining_seconds <= api_check(c).remaining_seconds
      /\ api_check(c)'.remaining_seconds >= 0

C10_ApiCheck == [](C10_ApiCheckState) /\ [][C10_ApiCheckStep]_vars

\* api_check has answered for a live session whose age is not a whole number
\* of seconds.
C10_Witness ==
  /\ resp.op = "api_check"
  /\ Live(resp.code)
  /\ (now - file_store[resp.code].timestamp) % TicksPerSecond # 0
  /\ resp.r.minutes > 0 /\ resp.r.seconds > 0

\* The step is one of the cleanup thread.
ReaperStep == rp' # rp

\* C11: within a sweep, no failure on one file ends the sweep: the thread
\* leaves the disk sweep only with every listed file handled, and goes to
\* sleep only from the end of the registry sweep.
C11_SweepNotAborted ==
  [][ /\ (rp.pc = "scan" /\ rp'.pc # "scan") => (rp.todo = {} /\ rp'.pc = "purge")
      /\ (rp.pc # "sleep" /\ rp'.pc = "sleep") => rp.pc = "purge" ]_vars

\* C12: the cleanup thread is always asleep or in a sweep; every sweep ends
\* in a sleep of one check interval, however it ends; and whenever that sleep
\* is over, another iteration begins.
C12_SleepsOneInterval ==
  (ReaperStep /\ rp'.pc = "sleep") => rp'.wake = now + 60 * TicksPerSecond

C12_ReaperNeverStops ==
  /\ [](rp.pc \in {"sleep", "scan", "purge"})
  /\ [][C12_SleepsOneInterval]_vars
  /\ (rp.pc # "sleep") ~> (rp.pc = "sleep")
  /\ (rp.pc = "sleep" /\ rp.wake <= now) ~> ~(rp.pc = "sleep" /\ rp.wake <= now)

\* A sweep has begun after an earlier iteration ended and slept, with a file
\* in the directory on which the pattern test raises.
C12_Witness ==
  /\ rp.pc = "scan"
  /\ rp.wake > 0
  /\ \E name \in DOMAIN disk : Len(name) < 7 /\ disk[name].mtime < rp.wake - 60 * TicksPerSecond

\* C13: when the cleanup thread removes a code from file_store, none of the
\* blobs in that session's file list is in the upload directory.
C13_BlobsGoWithSession ==
  [][ \A c \in DOMAIN file_store :
        (ReaperStep /\ c \notin DOMAIN file_store') =>
          \A k \in 1..Len(file_store[c].files) :
            file_store[c].files[k].filename \notin DOMAIN disk' ]_vars

\* Six digits followed by "_".
SixDigitsUnderscore(name) ==
  /\ Len(name) >= 7
  /\ \A k \in 1..6 : name[k] \in Digits
  /\ name[7] = "_"

\* C14: the disk sweep handles every listed file and decides from the file
\* alone: a file it handles is deleted exactly if its age at the start of
\* the sweep is over the TTL or its name is not six digits and "_", and the
\* disk sweep ends only when every listed file has been handled.
C14_DiskSweepPerFile ==
  [][ (rp.pc = "scan" /\ ReaperStep) =>
        /\ rp'.pc # "scan" => rp.todo = {}
        /\ \A name \in DOMAIN disk :
             LET qualifies == \/ rp.now - disk[name].mtime > TTL
                              \/ ~SixDigitsUnderscore(name)
             IN
             /\ (name \in rp.todo /\ name \notin rp'.todo) =>
                  (name \notin DOMAIN disk' <=> qualifies)
             /\ name \notin DOMAIN disk' => qualifies ]_vars

\* C15: every file written by an upload, in flight or registered, has a name
\* of a six-digit code, "_" and a sanitized name (one that secure_filename
\* leaves as it is), on which the pattern test is true and does not raise; and the cleanup thread deletes such a file only
\* when its age at the start of the sweep is over the TTL.
C15_StoredForm ==
  \A name \in DOMAIN disk :
    disk[name].writer # 0 =>
      /\ SixDigitsUnderscore(name)
      /\ ~PatternRaises(name) /\ PatternMatches(name)
      /\ Prefix(name, 6) \in Codes
      /\ LET rest == SubSeq(name, 8, Len(name)) IN secure_filename(rest) = rest

C15_OnlyByAge ==
  \A name \in DOMAIN disk :
    (disk[name].writer # 0 /\ ReaperStep /\ name \notin DOMAIN disk') =>
      rp.now - disk[name].mtime > TTL

C15_UploadsMatchPattern == [](C15_StoredForm) /\ [][C15_OnlyByAge]_vars

\* The disk sweep is over, and a file that an upload wrote before the sweep
\* began, under an empty sanitized name, is still there.
C15_Witness ==
  /\ rp.pc = "purge"
  /\ \E name \in DOMAIN disk :
       disk[name].writer # 0 /\ disk[name].mtime < rp.now /\ Len(name) = 7

\* C16: an entry that the cleanup thread removes from file_store is, when it
\* is removed, older than the TTL.
C16_OnlyExpiredRemoved ==
  [][ \A c \in DOMAIN file_store :
        (ReaperStep /\ c \notin DOMAIN file_store') =>
          now - file_store[c].timestamp > TTL ]_vars

\* C17: while the directory is there, every blob in the file list of a live
\* session is in it.
C17_LiveBlobsPresent ==
  \A c \in DOMAIN file_store :
    (upload_path_exists /\ Live(c)) =>
      \A k \in 1..Len(file_store[c].files) :
        file_store[c].files[k].filename \in DOMAIN disk

\* C18: the step that rejects an upload for size leaves every file written
\* by another upload as it was.
C18_RollbackOwnFilesOnly ==
  [][ \A r \in Requests :
        (h[r].pc = "loop" /\ h'[r].pc = "done"
           /\ h'[r].error \in {"Total size exceeds 100 MB limit",
                                "Single file too large (max ~80 MB)"}) =>
          \A name \in DOMAIN disk :
            disk[name].writer \in Requests \ {r} =>
              (name \in DOMAIN disk' /\ disk'[name] = disk[name]) ]_vars

\* C19: no two file records in file_store, of one session or of two, have
\* the same stored name.
C19_StoredNamesDistinct ==
  \A c, d \in DOMAIN file_store :
    \A i \in 1..Len(file_store[c].files), j \in 1..Len(file_store[d].files) :
      file_store[c].files[i].filename = file_store[d].files[j].filename =>
        (c = d /\ i = j)

\* C20: the step of a read handler, whatever it answers, leaves file_store
\* and the upload directory as they were.
C20_ReadsChangeNothing ==
  [][ (resp' # resp /\ resp' # NoResp) =>
        /\ file_store' = file_store
        /\ disk' = disk
        /\ upload_path_exists' = upload_path_exists ]_vars

\* get_all_files has answered with an archive of files that are there, for a
\* session past its TTL.
C20_Witness ==
  /\ resp.op = "get_all_files"
  /\ resp.r.status = 200 /\ resp.r.kind = "zip" /\ resp.r.entries # <<>>
  /\ resp.code \in DOMAIN file_store /\ ~Live(resp.code)

====
